---- MODULE Spec2Model ----
(***************************************************************************)
(* A model of the error-handling library vt.utils.errors.error_specs:      *)
(*   errmsg.py      ErrorMessageFormer (message formatting)                 *)
(*   exceptions.py  VTException, VTExitingException, VTCmdException         *)
(*   utils.py       require_type, require_iterable                          *)
(*                                                                         *)
(* Text is modelled as a sequence of tokens.  A token is a character of a   *)
(* label (such as "a" or ",") or a whole literal of the source (such as     *)
(* "and" or " are required.").  The token alphabet is uniquely decodable,   *)
(* so two token sequences are equal exactly when the strings are.           *)
(***************************************************************************)
EXTENDS Integers, Sequences, FiniteSets, TLC

VARIABLES formers, dicts, lastCall, errs, ctorArgs, lastErrOp, val, lastReq, argv, parsed

vars == <<formers, dicts, lastCall, errs, ctorArgs, lastErrOp, val, lastReq, argv, parsed>>

fmtVars == <<formers, dicts, lastCall>>

errVars == <<errs, ctorArgs, lastErrOp>>

reqVars == <<val, lastReq>>

argVars == <<argv, parsed>>

\* An optional value (an argument that may be None, or a keyword argument that may
\* be left out) is a sequence: empty for None, of the one value otherwise.
None == <<>>

Some(v) == <<v>>

\* ------------------------------------------------------------------ bounds
\* Largest number of labels (items) given to one formatting call.
MaxLabels == 3

\* Largest number of formatter instances alive at once.
MaxFormers == 2

\* Largest number of exception objects alive at once.
MaxErrs == 3

\* Largest number of elements of a container given to require_iterable.
MaxItems == 2

\* Largest number of arguments of an enumerated command line.
MaxArgs == 4

\* ------------------------------------------------------------------ text
\* A successful return and a raised exception, as the outcome of a call.
Ok(v) == [val |-> v, ok |-> TRUE]

Raise(e) == [ok |-> FALSE, err |-> e]

\* sep.join(parts) for a non-empty list of texts.
RECURSIVE StrJoin(_, _)
StrJoin(sep, parts) ==
  IF Len(parts) = 0 THEN <<>>
  ELSE IF Len(parts) = 1 THEN parts[1]
  ELSE parts[1] \o sep \o StrJoin(sep, Tail(parts))

\* Number of tokens of text t equal to tok.
Count(t, tok) == Cardinality({i \in 1..Len(t) : t[i] = tok})

\* Number of occurrences of the non-empty text sub in the text t, counted from
\* the left without overlap (Python's str.count).
RECURSIVE StrCount(_, _)
StrCount(t, sub) ==
  IF Len(t) < Len(sub) THEN 0
  ELSE IF SubSeq(t, 1, Len(sub)) = sub
  THEN 1 + StrCount(SubSeq(t, Len(sub) + 1, Len(t)), sub)
  ELSE StrCount(Tail(t), sub)

EndsWith(t, suf) ==
  /\ Len(suf) <= Len(t)
  /\ SubSeq(t, Len(t) - Len(suf) + 1, Len(t)) = suf

\* All sequences over S of a length between lo and hi.
SeqsOf(S, lo, hi) == UNION {[1..n -> S] : n \in lo..hi}

\* --------------------------------------------------------- ErrorMessageFormer
Locales == {"en", "de"}

\* Conjunction keys used by callers; "nor" is a key no mapping of the model holds.
ConjKeys == {"and", "or"}

CallKeys == {"and", "or", "nor"}

Words == {"and", "und"}

\* Every conjunction mapping: a dict from some of the keys to words.
Maps == UNION {[K -> Words] : K \in SUBSET ConjKeys}

\* The default mapping of the constructor; "or" maps to "or".
DefaultConjunctions == [k \in ConjKeys |-> k]

\* ErrorMessageFormer.__init__: `conjunctions or {...}` replaces None and an
\* empty dict by a new default mapping.  arg is None, or the mapping passed.
InitConjunctions(arg) ==
  IF arg = None THEN DefaultConjunctions
  ELSE IF DOMAIN arg[1] = {} THEN DefaultConjunctions
  ELSE arg[1]

\* The configuration a formatting call reads: the flag and the contents of the
\* mapping object the instance refers to.
Cfg(f) == [locale |-> formers[f].locale,
           use_oxford_comma |-> formers[f].use_oxford_comma,
           conjunctions |-> dicts[formers[f].conjunctions]]

\* The mutant of join_args that always writes the Oxford comma.
join_args_always_comma(cfg, items, conj_type, surround_item) ==
  LET conjunction == IF conj_type \in DOMAIN cfg.conjunctions
                     THEN cfg.conjunctions[conj_type] ELSE conj_type
      its == IF surround_item # <<>>
             THEN [i \in 1..Len(items) |-> surround_item \o items[i] \o surround_item]
             ELSE items
  IN IF Len(its) = 2 THEN Ok(its[1] \o <<" ", conjunction, " ">> \o its[2])
     ELSE IF Len(its) > 2
     THEN Ok(StrJoin(<<",", " ">>, SubSeq(its, 1, Len(its) - 1)) \o <<",">>
             \o <<" ", conjunction, " ">> \o its[Len(its)])
     ELSE IF Len(its) = 0 THEN Raise("IndexError")
     ELSE Ok(its[1])

\* The mutant of join_args that forgets the closing wrapper of each item.
join_args_open_wrapper(cfg, items, conj_type, surround_item) ==
  LET conjunction == IF conj_type \in DOMAIN cfg.conjunctions
                     THEN cfg.conjunctions[conj_type] ELSE conj_type
      its == IF surround_item # <<>>
             THEN [i \in 1..Len(items) |-> surround_item \o items[i]]
             ELSE items
      comma == IF cfg.use_oxford_comma THEN <<",">> ELSE <<>>
  IN IF Len(its) = 2 THEN Ok(its[1] \o <<" ", conjunction, " ">> \o its[2])
     ELSE IF Len(its) > 2
     THEN Ok(StrJoin(<<",", " ">>, SubSeq(its, 1, Len(its) - 1)) \o comma
             \o <<" ", conjunction, " ">> \o its[Len(its)])
     ELSE IF Len(its) = 0 THEN Raise("IndexError")
     ELSE Ok(its[1])

\* ErrorMessageFormer._join_args.  `self.conjunctions.get(conj_type, conj_type)`
\* falls back to the key itself; items[0] of an empty list raises IndexError.
join_args(cfg, items, conj_type, surround_item) ==
  LET conjunction == IF conj_type \in DOMAIN cfg.conjunctions
                     THEN cfg.conjunctions[conj_type] ELSE conj_type
      its == IF surround_item # <<>>
             THEN [i \in 1..Len(items) |-> surround_item \o items[i] \o surround_item]
             ELSE items
      comma == IF cfg.use_oxford_comma THEN <<",">> ELSE <<>>
  IN IF Len(its) = 2 THEN Ok(its[1] \o <<" ", conjunction, " ">> \o its[2])
     ELSE IF Len(its) > 2
     THEN Ok(StrJoin(<<",", " ">>, SubSeq(its, 1, Len(its) - 1)) \o comma
             \o <<" ", conjunction, " ">> \o its[Len(its)])
     ELSE IF Len(its) = 0 THEN Raise("IndexError")
     ELSE Ok(its[1])

\* An f-string around a call of _join_args: the exception of the call propagates.
Wrap(before, r, after) == IF r.ok THEN Ok(before \o r.val \o after) ELSE r

\* The mutant of not_allowed_together that leaves the prefix out.
not_allowed_together_no_prefix(cfg, all_args, prefix, suffix) ==
  Wrap(<<>>, join_args(cfg, all_args, "and", <<>>), suffix)

\* ErrorMessageFormer.not_allowed_together
not_allowed_together(cfg, all_args, prefix, suffix) ==
  Wrap(prefix, join_args(cfg, all_args, "and", <<>>), suffix)

\* ErrorMessageFormer.at_least_one_required
at_least_one_required(cfg, all_args, prefix, suffix) ==
  Wrap(prefix \o <<"Either ">>, join_args(cfg, all_args, "or", <<>>), suffix)

\* The mutant of all_required that says "All" for two labels too.
all_required_always_all(cfg, all_args, prefix, suffix) ==
  Wrap(prefix \o <<"All", " ">>, join_args(cfg, all_args, "and", <<>>), suffix)

\* ErrorMessageFormer.all_required
all_required(cfg, all_args, prefix, suffix) ==
  LET keyword == IF Len(all_args) = 2 THEN "Both" ELSE "All"
  IN Wrap(prefix \o <<keyword, " ">>, join_args(cfg, all_args, "and", <<>>), suffix)

\* The mutant of errmsg_for_choices that puts a space before the suffix.
errmsg_for_choices_spaced_suffix(cfg, value, emphasis, choices, prefix, suffix) ==
  LET msg == prefix \o (IF emphasis # None /\ emphasis[1] # <<>>
                        THEN emphasis[1] \o <<" ">> ELSE <<>>) \o value \o <<".">>
  IN IF choices # None /\ choices[1] # <<>>
     THEN Wrap(msg \o <<" Choose from ">>,
               join_args(cfg, choices[1], "and", <<"'">>), <<".", " ">> \o suffix)
     ELSE Ok(msg \o <<" ">> \o suffix)

\* ErrorMessageFormer.errmsg_for_choices.  emphasis and choices are None or a
\* text / a list (optional values); an empty emphasis and an empty list are falsy, like None.
errmsg_for_choices(cfg, value, emphasis, choices, prefix, suffix) ==
  LET msg == prefix \o (IF emphasis # None /\ emphasis[1] # <<>>
                        THEN emphasis[1] \o <<" ">> ELSE <<>>) \o value \o <<".">>
  IN IF choices # None /\ choices[1] # <<>>
     THEN Wrap(msg \o <<" Choose from ">>,
               join_args(cfg, choices[1], "and", <<"'">>), <<".">> \o suffix)
     ELSE Ok(msg \o suffix)

\* ------------------------------------------------- formatter: inputs of calls
LabelSet == {<<"a">>, <<"and">>, <<"x", ",", " ", "y">>}

Wrappers == {<<>>, <<"'">>}

NotAllowedSuffixes == {<<" are not allowed together.">>, <<" together nay.">>}

AtLeastOneSuffixes == {<<" is required.">>}

AllRequiredSuffixes == {<<" are required.">>, <<" are needed.">>}

Prefixes == {<<>>, <<"Invalid: ">>}

ChoicePrefixes == {<<"Unexpected ">>, <<"Undefined ">>}

ChoiceSuffixes == {<<>>, <<" Defaulting to 'WARNING'">>}

ChoiceValues == {<<"value">>}

Emphases == {None, Some(<<>>), Some(<<"verbosity">>)}

\* The label lists of a public method: first_arg, second_arg and *args.
LabelLists == SeqsOf(LabelSet, 2, MaxLabels)

\* The lists _join_args can be handed, the empty list and a single item included.
ItemLists == SeqsOf(LabelSet, 0, MaxLabels)

\* The inputs of the formatting calls made while instances are cloned and changed.
ProbeLists == {<<<<"a">>, <<"and">>>>, <<<<"a">>, <<"a">>, <<"a">>>>}

FormerIds == 1..Len(formers)

IdleErr == errs = <<>> /\ ctorArgs = <<>> /\ lastErrOp = [op |-> "none"]

IdleReq == val = [items |-> <<>>, type |-> "NoneType"] /\ lastReq = [fn |-> "none"]

IdleFmt == formers = <<>> /\ dicts = <<>> /\ lastCall = [op |-> "none"]

IdleArg == argv = <<>> /\ parsed = [done |-> FALSE]

\* A formatting call on instance f, made by a caller that holds no result: the
\* call and its outcome are recorded, the instance and every mapping are left as
\* they were.
Called(f, op, args, out) ==
  /\ lastCall.op = "none"
  /\ lastCall' = [cfg |-> Cfg(f), op |-> op, args |-> args, out |-> out, self |-> f]
  /\ UNCHANGED <<formers, dicts, errVars, reqVars, argVars>>

JoinArgs(f, items, conj_type, surround_item) ==
  Called(f, "join_args",
         [items |-> items, conj_type |-> conj_type, surround_item |-> surround_item],
         join_args(Cfg(f), items, conj_type, surround_item))

NotAllowedTogether(f, all_args, prefix, suffix) ==
  Called(f, "not_allowed_together",
         [items |-> all_args, conj_type |-> "and", surround_item |-> <<>>,
          prefix |-> prefix, suffix |-> suffix],
         not_allowed_together(Cfg(f), all_args, prefix, suffix))

AtLeastOneRequired(f, all_args, prefix, suffix) ==
  Called(f, "at_least_one_required",
         [items |-> all_args, conj_type |-> "or", surround_item |-> <<>>,
          prefix |-> prefix, suffix |-> suffix],
         at_least_one_required(Cfg(f), all_args, prefix, suffix))

AllRequired(f, all_args, prefix, suffix) ==
  Called(f, "all_required",
         [items |-> all_args, conj_type |-> "and", surround_item |-> <<>>,
          prefix |-> prefix, suffix |-> suffix],
         all_required(Cfg(f), all_args, prefix, suffix))

ErrmsgForChoices(f, value, emphasis, choices, prefix, suffix) ==
  Called(f, "errmsg_for_choices",
         [items |-> IF choices = None THEN <<>> ELSE choices[1],
          conj_type |-> "and", surround_item |-> <<"'">>, prefix |-> prefix,
          suffix |-> suffix, value |-> value, emphasis |-> emphasis, choices |-> choices],
         errmsg_for_choices(Cfg(f), value, emphasis, choices, prefix, suffix))

\* The caller takes the result of the call; the next call can be made.
ReturnFmt ==
  /\ lastCall.op # "none"
  /\ lastCall' = [op |-> "none"]
  /\ UNCHANGED <<formers, dicts, errVars, reqVars, argVars>>

\* ErrorMessageFormer(locale, use_oxford_comma, conjunctions): the first instance
\* and the mapping object it refers to.
InitFmt ==
  /\ \E locale \in Locales, oxford \in BOOLEAN, arg \in {None} \cup {Some(m) : m \in Maps} :
       /\ formers = <<[locale |-> locale, use_oxford_comma |-> oxford, conjunctions |-> 1]>>
       /\ dicts = <<InitConjunctions(arg)>>
  /\ lastCall = [op |-> "none"]
  /\ IdleErr
  /\ IdleReq
  /\ IdleArg

NextFmt ==
  \/ /\ lastCall.op = "none"
     /\ \E f \in FormerIds, items \in ItemLists, k \in CallKeys, w \in Wrappers :
          JoinArgs(f, items, k, w)
  \/ /\ lastCall.op = "none"
     /\ \E f \in FormerIds, ls \in LabelLists, p \in Prefixes, s \in NotAllowedSuffixes :
          NotAllowedTogether(f, ls, p, s)
  \/ /\ lastCall.op = "none"
     /\ \E f \in FormerIds, ls \in LabelLists, p \in Prefixes, s \in AtLeastOneSuffixes :
          AtLeastOneRequired(f, ls, p, s)
  \/ /\ lastCall.op = "none"
     /\ \E f \in FormerIds, ls \in LabelLists, p \in Prefixes, s \in AllRequiredSuffixes :
          AllRequired(f, ls, p, s)
  \/ /\ lastCall.op = "none"
     /\ \E f \in FormerIds, v \in ChoiceValues, e \in Emphases,
           c \in {None} \cup {Some(l) : l \in ItemLists},
           p \in ChoicePrefixes, s \in ChoiceSuffixes :
          ErrmsgForChoices(f, v, e, c, p, s)
  \/ ReturnFmt
\* The formatter under calls only.
SpecFmt == InitFmt /\ [][NextFmt]_vars

\* ---------------------------------------------- formatter: clones and changes
\* The `conjunctions` keyword argument of clone_with: left out, a mapping object
\* the caller already holds (one of the heap, by reference), or a new dict literal.
ConjOverrides ==
  {None} \cup {Some([ref |-> d]) : d \in 1..Len(dicts)}
         \cup {Some([new |-> m]) : m \in Maps}

\* The mapping object the constructor stores for a clone of f, as <<id, dicts'>>.
\* Without the keyword it is handed self.conjunctions.copy(), a new object; with
\* it, the very object passed.  `conjunctions or {...}` then keeps a non-empty
\* object and replaces an empty one by a new default mapping.
CloneConjunctions(f, ov) ==
  LET isRef == ov # None /\ "ref" \in DOMAIN ov[1]
      contents == IF ov = None THEN dicts[formers[f].conjunctions]
                  ELSE IF isRef THEN dicts[ov[1].ref]
                  ELSE ov[1].new
  IN IF isRef /\ DOMAIN contents # {}
     THEN <<ov[1].ref, dicts>>
     ELSE <<Len(dicts) + 1, Append(dicts, InitConjunctions(Some(contents)))>>

\* ErrorMessageFormer.clone_with(**kwargs) on instance f.
CloneWith(f, ovLocale, ovOxford, ovConj) ==
  /\ lastCall.op = "none"
  /\ Len(formers) < MaxFormers
  /\ LET c == CloneConjunctions(f, ovConj)
         new == [locale |-> IF ovLocale = None THEN formers[f].locale ELSE ovLocale[1],
                 use_oxford_comma |-> IF ovOxford = None THEN formers[f].use_oxford_comma
                                      ELSE ovOxford[1],
                 conjunctions |-> c[1]]
     IN /\ formers' = Append(formers, new)
        /\ dicts' = c[2]
        /\ lastCall' = [cfg |-> Cfg(f), op |-> "clone_with",
                        args |-> [locale |-> ovLocale, use_oxford_comma |-> ovOxford,
                                  conjunctions |-> ovConj],
                        out |-> Ok(Len(formers) + 1), self |-> f]
  /\ UNCHANGED <<errVars, reqVars, argVars>>

\* `c.use_oxford_comma = b` on a clone c (any instance but the first).
SetOxford(f, b) ==
  /\ lastCall.op = "none"
  /\ f # 1
  /\ formers' = [formers EXCEPT ![f].use_oxford_comma = b]
  /\ UNCHANGED <<dicts, lastCall, errVars, reqVars, argVars>>

\* `c.conjunctions[k] = w` on a clone c: the mapping object c refers to changes.
DictSetItem(f, k, w) ==
  /\ lastCall.op = "none"
  /\ f # 1
  /\ LET d == formers[f].conjunctions
     IN dicts' = [dicts EXCEPT ![d] =
                    [x \in DOMAIN dicts[d] \cup {k} |-> IF x = k THEN w ELSE dicts[d][x]]]
  /\ UNCHANGED <<formers, lastCall, errVars, reqVars, argVars>>

\* `del c.conjunctions[k]` on a clone c.
DictDelItem(f, k) ==
  /\ lastCall.op = "none"
  /\ f # 1
  /\ LET d == formers[f].conjunctions
     IN /\ k \in DOMAIN dicts[d]
        /\ dicts' = [dicts EXCEPT ![d] = [x \in DOMAIN dicts[d] \ {k} |-> dicts[d][x]]]
  /\ UNCHANGED <<formers, lastCall, errVars, reqVars, argVars>>

NextClone ==
  \/ \E f \in FormerIds, l \in {None} \cup {Some(x) : x \in Locales},
        o \in {None} \cup {Some(x) : x \in BOOLEAN}, c \in ConjOverrides :
       CloneWith(f, l, o, c)
  \/ \E f \in FormerIds, b \in BOOLEAN : SetOxford(f, b)
  \/ \E f \in FormerIds, k \in ConjKeys, w \in Words : DictSetItem(f, k, w)
  \/ \E f \in FormerIds, k \in ConjKeys : DictDelItem(f, k)
  \/ \E f \in FormerIds, ls \in ProbeLists :
       NotAllowedTogether(f, ls, <<>>, <<" are not allowed together.">>)
  \/ \E f \in FormerIds, ls \in ProbeLists :
       AtLeastOneRequired(f, ls, <<>>, <<" is required.">>)
  \/ \E f \in FormerIds, ls \in ProbeLists :
       AllRequired(f, ls, <<>>, <<" are required.">>)
  \/ ReturnFmt

\* The formatter under cloning, changes to the clones and calls.
SpecClone == InitFmt /\ [][NextClone]_vars

\* ------------------------------------------------------------ exit codes
\* error_codes.py: the assignments of the module in the order they are executed
\* when it is imported, each of a number or of the value of an earlier name.
error_code_statements ==
  <<[name |-> "ENC_EXIT_OK", lit |-> 0],
    [name |-> "ENC_ERR_GENERIC_ERR", lit |-> 1],
    [name |-> "ENC_ERR_INVALID_USAGE", lit |-> 2],
    [name |-> "ENC_ERR_STATE_ALREADY_EXISTS", lit |-> 4],
    [ref |-> "ENC_ERR_STATE_ALREADY_EXISTS", name |-> "ENC_FILE_ALREADY_EXISTS"],
    [ref |-> "ENC_ERR_STATE_ALREADY_EXISTS", name |-> "ENC_DIR_ALREADY_EXISTS"],
    [name |-> "ENC_ERR_DATA_FORMAT_ERR", lit |-> 65],
    [name |-> "ENC_UNAVAILABLE_SERVICE_ERR", lit |-> 69],
    [ref |-> "ENC_UNAVAILABLE_SERVICE_ERR", name |-> "ENC_UNSTABLE_STATE_ERR"],
    [ref |-> "ENC_UNAVAILABLE_SERVICE_ERR", name |-> "ENC_UNINITIALISED_ERR"],
    [name |-> "ENC_CANNOT_EXECUTE_CMD", lit |-> 126],
    [name |-> "ENC_CMD_EXECUTION_PERMISSION_DENIED", lit |-> 126],
    [name |-> "ENC_ERR_CMD_NOT_FOUND", lit |-> 127],
    [ref |-> "ENC_ERR_CMD_NOT_FOUND", name |-> "ENC_ERR_FILE_NOT_FOUND"],
    [ref |-> "ENC_ERR_CMD_NOT_FOUND", name |-> "ENC_ERR_DIR_NOT_FOUND"],
    [name |-> "ENC_ERR_UNDERLYING_CMD_ERR", lit |-> 128],
    [name |-> "ENC_ERR_SIGINT_RECEIVED", lit |-> 130]>>

\* The assignment that gave `name` its value before statement n is executed.
LastBefore(name, n) ==
  CHOOSE i \in 1..(n - 1) :
    /\ error_code_statements[i].name = name
    /\ \A j \in (i + 1)..(n - 1) : error_code_statements[j].name # name

\* The value statement n assigns: its number, or what the name it refers to
\* holds at that moment.
RECURSIVE Assigned(_)
Assigned(n) ==
  LET st == error_code_statements[n]
  IN IF "lit" \in DOMAIN st THEN st.lit ELSE Assigned(LastBefore(st.ref, n))

\* The mutant of the registry with EX_USAGE (64) for the data-format error.
error_codes_usage_for_data ==
  [name \in {error_code_statements[n].name : n \in DOMAIN error_code_statements} |->
     IF name = "ENC_ERR_DATA_FORMAT_ERR" THEN 64
     ELSE Assigned(LastBefore(name, Len(error_code_statements) + 1))]

\* The names of the module after its import, each with its value.
error_codes ==
  [name \in {error_code_statements[n].name : n \in DOMAIN error_code_statements} |->
     Assigned(LastBefore(name, Len(error_code_statements) + 1))]

\* The generic-error code: the default exit code of VTExitingException.
ERR_GENERIC_ERR == 1

\* The data-format error code: the default exit code of require_type and
\* require_iterable.
ERR_DATA_FORMAT_ERR == 65

\* ------------------------------------------------------------- exceptions
\* An exception object of the heap `errs`:
\*   cls        its class name
\*   args       Exception.args, the positional message fragments (texts)
\*   cause      __cause__: 0 for None, or the index of the chained exception
\*   exit_code  _exit_code of a VTExitingException (None where there is none)
\*   cpe        called_process_error of a VTCmdException (0 where there is none)
\*   returncode, cmd   of a CalledProcessError
BuiltinClasses == {"ValueError"}

\* VTException and the classes that inherit its __str__; MyTypedException is the
\* subclass of VTExitingException that the callers of require_type define.
VTClasses == {"VTException", "VTExitingException", "VTCmdException", "MyTypedException"}

ErrIds == 1..Len(errs)

\* An Exception of the standard library, constructed with args.
NewBuiltin(cls, args) ==
  [args |-> args, cls |-> cls, cause |-> 0, exit_code |-> None, cpe |-> 0,
   returncode |-> 0, cmd |-> <<>>]

\* subprocess.CalledProcessError(returncode, cmd): BaseException.__new__ keeps the
\* positional arguments as args, so args is empty when both are passed by keyword.
NewCalledProcessError(returncode, cmd, positional) ==
  [args |-> IF positional THEN <<<<ToString(returncode)>>, cmd>> ELSE <<>>,
   cls |-> "CalledProcessError",
   cause |-> 0, exit_code |-> None, cpe |-> 0, returncode |-> returncode, cmd |-> cmd]

\* VTException.__init__(*args, **kwargs)
VTException_init(args) ==
  [args |-> args, cls |-> "VTException", cause |-> 0, exit_code |-> None, cpe |-> 0,
   returncode |-> 0, cmd |-> <<>>]

\* The mutant of the constructor that stores the default whatever is given.
VTExitingException_init_default(args, exit_code) ==
  [args |-> args, cls |-> "VTExitingException", cause |-> 0,
   exit_code |-> Some(ERR_GENERIC_ERR), cpe |-> 0, returncode |-> 0, cmd |-> <<>>]

\* VTExitingException.__init__(*args, exit_code=ERR_GENERIC_ERR, **kwargs);
\* exit_code is None when the keyword is left out.
VTExitingException_init(args, exit_code) ==
  [args |-> args, cls |-> "VTExitingException", cause |-> 0,
   exit_code |-> IF exit_code = None THEN Some(ERR_GENERIC_ERR) ELSE exit_code,
   cpe |-> 0, returncode |-> 0, cmd |-> <<>>]

\* The mutant of the constructor that takes an exit code of 0 for a missing one.
VTCmdException_init_falsy(args, called_process_error, exit_code) ==
  [args |-> args, cls |-> "VTCmdException", cause |-> 0,
   exit_code |-> IF exit_code = None \/ exit_code = Some(0)
                 THEN Some(errs[called_process_error].returncode) ELSE exit_code,
   cpe |-> called_process_error, returncode |-> 0, cmd |-> <<>>]

\* VTCmdException.__init__(*args, called_process_error, exit_code=None, **kwargs):
\* fallback_on_none_strict(exit_code, called_process_error.returncode).
VTCmdException_init(args, called_process_error, exit_code) ==
  [args |-> args, cls |-> "VTCmdException", cause |-> 0,
   exit_code |-> IF exit_code = None
                 THEN Some(errs[called_process_error].returncode) ELSE exit_code,
   cpe |-> called_process_error, returncode |-> 0, cmd |-> <<>>]

\* The mutant of the accessor that returns whatever is chained, unchecked.
cause_unchecked(e) ==
  IF errs[e].cls = "VTCmdException" /\ errs[e].cause = 0
  THEN Ok(errs[e].cpe) ELSE Ok(errs[e].cause)

\* The `cause` property: VTException.cause returns __cause__; VTCmdException.cause
\* checks the type of a chained exception and falls back to called_process_error.
cause(e) ==
  IF errs[e].cls = "VTCmdException"
  THEN IF errs[e].cause # 0
       THEN IF errs[errs[e].cause].cls # "CalledProcessError"
            THEN Raise("TypeError") ELSE Ok(errs[e].cause)
       ELSE Ok(errs[e].cpe)
  ELSE Ok(errs[e].cause)

\* repr() of a text, for the args tuple.
Repr(t) == <<"'">> \o t \o <<"'">>

\* BaseException.__str__: nothing for no args, the argument for one, and the
\* tuple of the arguments otherwise.
BaseStr(args) ==
  IF Len(args) = 0 THEN <<>>
  ELSE IF Len(args) = 1 THEN args[1]
  ELSE <<"(">> \o StrJoin(<<",", " ">>, [i \in 1..Len(args) |-> Repr(args[i])]) \o <<")">>

\* CalledProcessError.__str__ for a return code that is not negative.
CalledProcessError_str(e) ==
  <<"Command '">> \o errs[e].cmd \o <<"' returned non-zero exit status ">>
    \o <<ToString(errs[e].returncode)>> \o <<".">>

\* The mutant of __str__ that keeps the cause's message beside the direct one.
RECURSIVE str_keep_cause(_)
str_keep_cause(e) ==
  IF errs[e].cls = "CalledProcessError" THEN Ok(CalledProcessError_str(e))
  ELSE IF errs[e].cls \notin VTClasses THEN Ok(BaseStr(errs[e].args))
  ELSE LET c == cause(e)
       IN IF ~c.ok THEN c
          ELSE IF errs[e].args = <<>> /\ c.val # 0
          THEN IF errs[c.val].args = <<>> THEN Ok(<<errs[c.val].cls>>)
               ELSE Wrap(<<errs[c.val].cls, ": ">>, str_keep_cause(c.val), <<>>)
          ELSE IF errs[e].args # <<>> /\ c.val = 0 THEN Ok(BaseStr(errs[e].args))
          ELSE IF errs[e].args # <<>> /\ c.val # 0
          THEN Wrap(<<errs[c.val].cls, ": ">> \o BaseStr(errs[e].args) \o <<": ">>,
                    str_keep_cause(c.val), <<>>)
          ELSE Ok(<<>>)

\* str(e): VTException.__str__ for the classes of this library (every branch
\* reads the `cause` property, whose TypeError propagates), the standard
\* __str__ for the others.
RECURSIVE str(_)
str(e) ==
  IF errs[e].cls = "CalledProcessError" THEN Ok(CalledProcessError_str(e))
  ELSE IF errs[e].cls \notin VTClasses THEN Ok(BaseStr(errs[e].args))
  ELSE LET c == cause(e)
       IN IF ~c.ok THEN c
          ELSE IF errs[e].args = <<>> /\ c.val # 0
          THEN IF errs[c.val].args = <<>> THEN Ok(<<errs[c.val].cls>>)
               ELSE Wrap(<<errs[c.val].cls, ": ">>, str(c.val), <<>>)
          ELSE IF errs[e].args # <<>> /\ c.val = 0 THEN Ok(BaseStr(errs[e].args))
          ELSE IF errs[e].args # <<>> /\ c.val # 0
          THEN Ok(<<errs[c.val].cls, ": ">> \o BaseStr(errs[e].args))
          ELSE Ok(<<>>)

\* The mutant of to_dict whose message is the direct message, not the rendering.
to_dict_direct_message(e) ==
  LET c == cause(e)
  IN IF ~c.ok THEN c
     ELSE IF c.val = 0
     THEN Ok([message |-> BaseStr(errs[e].args), type |-> errs[e].cls,
              cause_type |-> None, cause_message |-> None])
     ELSE LET cm == str(c.val)
          IN IF ~cm.ok THEN cm
             ELSE Ok([message |-> BaseStr(errs[e].args), type |-> errs[e].cls,
                      cause_type |-> Some(errs[c.val].cls),
                      cause_message |-> Some(cm.val)])

\* VTException.to_dict: the entries of the dict in the order type, message,
\* cause_type, cause_message (None for a missing value).
to_dict(e) ==
  LET c == cause(e)
      m == str(e)
  IN IF ~m.ok THEN m
     ELSE IF ~c.ok THEN c
     ELSE IF c.val = 0
     THEN Ok([message |-> m.val, type |-> errs[e].cls,
              cause_type |-> None, cause_message |-> None])
     ELSE LET cm == str(c.val)
          IN IF ~cm.ok THEN cm
             ELSE Ok([message |-> m.val, type |-> errs[e].cls,
                      cause_type |-> Some(errs[c.val].cls),
                      cause_message |-> Some(cm.val)])

\* VTExitingException.exit_code
exit_code(e) == errs[e].exit_code[1]

\* ------------------------------------------------- exceptions: inputs, actions
ArgsSet == {<<>>, <<<<"main message.">>>>}

ManyArgs == <<<<"main message.">>, <<"more">>>>

GivenExitCodes == {None, Some(0), Some(20)}

\* The constructor arguments of VTExitingException: with and without a message,
\* with and without the exit_code keyword.
ExitingInputs ==
  {[args |-> <<>>, exit_code |-> None]}
    \cup {[args |-> <<<<"main message.">>>>, exit_code |-> ec] : ec \in GivenExitCodes}

ReturnCodes == {0, 3}

Commands == {<<"ls">>}

\* A new exception object: appended to the heap, with the arguments its
\* constructor was given.
Created(obj, given) ==
  /\ lastErrOp.op = "none"
  /\ Len(errs) < MaxErrs
  /\ errs' = Append(errs, obj)
  /\ ctorArgs' = Append(ctorArgs, given)
  /\ UNCHANGED <<lastErrOp, fmtVars, reqVars, argVars>>

\* The keyword arguments of a constructor call without exit_code and
\* called_process_error.
NoKeywords == [exit_code |-> None, called_process_error |-> 0]

CreateBuiltin(cls, args) == Created(NewBuiltin(cls, args), NoKeywords)

CreateCalledProcessError(rc, cmd, positional) ==
  Created(NewCalledProcessError(rc, cmd, positional), NoKeywords)

CreateVTException(args) == Created(VTException_init(args), NoKeywords)

CreateVTExitingException(args, ec) ==
  Created(VTExitingException_init(args, ec), [exit_code |-> ec, called_process_error |-> 0])

CreateVTCmdException(args, cpe, ec) ==
  /\ cpe \in ErrIds
  /\ errs[cpe].cls = "CalledProcessError"
  /\ Created(VTCmdException_init(args, cpe, ec),
             [exit_code |-> ec, called_process_error |-> cpe])

\* `raise e from c`, or `e.__cause__ = c`: the chain link of e is set, to an
\* exception that existed before e (so that no chain of causes is a cycle).
Chain(e, c) ==
  /\ lastErrOp.op = "none"
  /\ errs[e].cls \in VTClasses
  /\ c < e
  /\ errs' = [errs EXCEPT ![e].cause = c]
  /\ UNCHANGED <<ctorArgs, lastErrOp, fmtVars, reqVars, argVars>>

\* A call on exception e by a caller that holds no result: the call and its
\* outcome are recorded, the heap is left as it was.
ErrCalled(e, op, out) ==
  /\ lastErrOp.op = "none"
  /\ errs[e].cls \in VTClasses
  /\ lastErrOp' = [op |-> op, out |-> out, self |-> e]
  /\ UNCHANGED <<errs, ctorArgs, fmtVars, reqVars, argVars>>

CallStr(e) == ErrCalled(e, "str", str(e))

CallToDict(e) == ErrCalled(e, "to_dict", to_dict(e))

CallCause(e) == ErrCalled(e, "cause", cause(e))

CallExitCode(e) ==
  /\ errs[e].cls \in {"VTExitingException", "VTCmdException"}
  /\ ErrCalled(e, "exit_code", Ok(exit_code(e)))

ReturnErr ==
  /\ lastErrOp.op # "none"
  /\ lastErrOp' = [op |-> "none"]
  /\ UNCHANGED <<errs, ctorArgs, fmtVars, reqVars, argVars>>

InitErr ==
  /\ errs = <<>>
  /\ ctorArgs = <<>>
  /\ lastErrOp = [op |-> "none"]
  /\ IdleFmt
  /\ IdleReq
  /\ IdleArg

\* The steps on the objects of any class: chaining and the calls.
ErrSteps ==
  \/ \E e \in ErrIds, c \in ErrIds : Chain(e, c)
  \/ \E e \in ErrIds : CallStr(e)
  \/ \E e \in ErrIds : CallToDict(e)
  \/ \E e \in ErrIds : CallCause(e)
  \/ \E e \in ErrIds : CallExitCode(e)
  \/ ReturnErr

NextErr ==
  \/ \E cls \in BuiltinClasses, a \in ArgsSet : CreateBuiltin(cls, a)
  \/ \E a \in ArgsSet \cup {ManyArgs} : CreateVTException(a)
  \/ \E in \in ExitingInputs : CreateVTExitingException(in.args, in.exit_code)
  \/ ErrSteps

\* VTException and VTExitingException under construction, chaining and calls.
SpecErr == InitErr /\ [][NextErr]_vars

NextCmd ==
  \/ \E cls \in BuiltinClasses : CreateBuiltin(cls, <<<<"cause message.">>>>)
  \/ \E rc \in ReturnCodes, cmd \in Commands, pos \in BOOLEAN :
       CreateCalledProcessError(rc, cmd, pos)
  \/ \E a \in ArgsSet, cpe \in ErrIds, ec \in GivenExitCodes : CreateVTCmdException(a, cpe, ec)
  \/ ErrSteps

\* VTCmdException and the exceptions it wraps or is chained to, under
\* construction, chaining and calls.
SpecCmd == InitErr /\ [][NextCmd]_vars

\* ------------------------------------------------- require_type, require_iterable
\* A value is its class and, for an iterable, the classes of the elements an
\* iteration yields (for a generator: of the elements it has not yielded yet).
ScalarTypes == {"int", "bool", "str", "NoneType"}

\* The iterable classes: the built-in containers, a generator, and Point, a
\* collections.namedtuple class (a subclass of tuple).
ContainerTypes == {"list", "tuple", "set", "range", "generator", "Point"}

ItemTypes == {"int", "str", "bool"}

\* isinstance(v, T) for a value of class t: T itself or a subclass of T (bool
\* of int, Point of tuple).
IsInstance(t, T) ==
  \/ t = T
  \/ t = "bool" /\ T = "int"
  \/ t = "Point" /\ T = "tuple"

\* isinstance(v, Iterable): the containers and str.
IsIterable(t) == t \in ContainerTypes \cup {"str"}

\* A single-pass iterable: iterating it consumes the elements it yields.
SinglePass(t) == t = "generator"

\* The exception the helpers build, as the pair of objects it is made of: the
\* TypeError cause and the exception_to_raise instance chained to it (its cause
\* is the object right before it on the heap).  exit_code is passed by keyword.
BuildError(msg, exception_to_raise, code) ==
  <<NewBuiltin("TypeError", <<msg>>),
    [VTExitingException_init(<<msg>>, Some(code)) EXCEPT !.cls = exception_to_raise]>>

\* The exit_code a helper works with: the one given, or its default.
EffectiveCode(code) == IF code = None THEN ERR_DATA_FORMAT_ERR ELSE code[1]

\* The traceback the raised exception starts with.  With raise_from_caller, and
\* where the interpreter has stack frames (currentframe() is not None), it is a
\* made-up traceback at the frame that called the raising function; otherwise
\* the raise statement itself.
Origin(raise_from_caller, frames, caller, here) ==
  IF raise_from_caller /\ frames THEN caller ELSE here

\* The outcome of a helper: a return value, or the exception raised (the pair
\* of BuildError, with __cause__ set) and its origin; and the elements the value
\* has left.
Returned(v, items) == [val |-> v, ok |-> TRUE, items |-> items]

Raised(pair, chained, origin, items) ==
  [ok |-> FALSE, items |-> items, cause |-> pair[1], chained |-> chained,
   origin |-> origin, exc |-> pair[2]]

\* The mutant of require_type that chains the cause in `raise exc from cause`
\* only, so not on the path that raises with the made-up traceback.
require_type_from_only(v, var_name, val_type, exception_to_raise, code, prefix, suffix, raise_from_caller, frames) ==
  IF IsInstance(v.type, val_type) THEN Returned(None, v.items)
  ELSE LET typename == val_type
           errmsg == prefix \o <<"'">> \o var_name \o <<"'", " must be of type ">>
                       \o <<typename>> \o suffix
       IN Raised(BuildError(errmsg, exception_to_raise, EffectiveCode(code)),
                 ~(raise_from_caller /\ frames),
                 Origin(raise_from_caller, frames, "caller", "require_type"), v.items)

\* The mutant of require_type that leaves the exit code to the exception's default.
require_type_default_code(v, var_name, val_type, exception_to_raise, code, prefix, suffix, raise_from_caller, frames) ==
  IF IsInstance(v.type, val_type) THEN Returned(None, v.items)
  ELSE LET typename == val_type
           errmsg == prefix \o <<"'">> \o var_name \o <<"'", " must be of type ">>
                       \o <<typename>> \o suffix
       IN Raised(BuildError(errmsg, exception_to_raise, ERR_GENERIC_ERR), TRUE,
                 Origin(raise_from_caller, frames, "caller", "require_type"), v.items)

\* require_type(val_to_check, var_name, val_type, exception_to_raise, exit_code,
\* prefix=, suffix=, raise_from_caller=); `code` is the optional exit_code
\* argument and `frames` is whether the interpreter has stack frames.  The cause
\* is chained before either raise statement.
require_type(v, var_name, val_type, exception_to_raise, code, prefix, suffix, raise_from_caller, frames) ==
  IF IsInstance(v.type, val_type) THEN Returned(None, v.items)
  ELSE LET typename == val_type
           errmsg == prefix \o <<"'">> \o var_name \o <<"'", " must be of type ">>
                       \o <<typename>> \o suffix
       IN Raised(BuildError(errmsg, exception_to_raise, EffectiveCode(code)), TRUE,
                 Origin(raise_from_caller, frames, "caller", "require_type"), v.items)

\* require_iterable.raise_error(msg): the same construction; its caller's frame
\* is require_iterable's own.
raise_error(msg, a, items) ==
  Raised(BuildError(msg, a.exception_to_raise, EffectiveCode(a.exit_code)),
         TRUE, Origin(a.raise_from_caller, a.frames, "require_iterable", "raise_error"),
         items)

\* The messages of require_iterable: prefix, the quoted var_name, the complaint
\* and suffix.
IterMsg(a, complaint) ==
  a.prefix \o <<"'">> \o a.var_name \o <<"'">> \o complaint \o a.suffix

\* What `any(True for _ in val_to_check)` leaves of the elements: a single-pass
\* iterable loses the first element it yields.
AfterAny(v) == IF SinglePass(v.type) /\ v.items # <<>> THEN Tail(v.items) ELSE v.items

\* The index of the first element of items that is no instance of item_type,
\* 0 when there is none.
RECURSIVE FirstBad(_, _, _)
FirstBad(items, item_type, i) ==
  IF i > Len(items) THEN 0
  ELSE IF ~IsInstance(items[i], item_type) THEN i
  ELSE FirstBad(items, item_type, i + 1)

\* require_iterable with one of its checks changed, for the mutants below:
\*   "str"    a str is taken as any other iterable,
\*   "exact"  enforce accepts the class it names only, no subclass of it,
\*   "size"   empty=True and empty=False are taken for each other.
require_iterable_changed(v, a, change) ==
  IF (change # "str" /\ v.type = "str") \/ ~IsIterable(v.type)
  THEN raise_error(IterMsg(a, <<" must be an iterable (not a string)">>), a, v.items)
  ELSE IF a.enforce # None
          /\ (IF change = "exact" THEN v.type # a.enforce[1]
              ELSE ~IsInstance(v.type, a.enforce[1]))
  THEN raise_error(IterMsg(a, <<" must be of type ", a.enforce[1]>>), a, v.items)
  ELSE LET iterable_type_str == IF a.enforce # None THEN a.enforce[1] ELSE "iterable"
           left == IF a.empty # None THEN AfterAny(v) ELSE v.items
           empty == IF change = "size" /\ a.empty # None THEN Some(~a.empty[1])
                    ELSE a.empty
       IN IF empty = Some(TRUE) /\ v.items # <<>>
          THEN raise_error(IterMsg(a, <<" must be empty">>), a, left)
          ELSE IF empty = Some(FALSE) /\ v.items = <<>>
          THEN raise_error(IterMsg(a, <<" must not be empty">>), a, left)
          ELSE IF a.item_type = None THEN Returned(TRUE, left)
          ELSE LET bad == FirstBad(left, a.item_type[1], 1)
               IN IF bad = 0
                  THEN Returned(TRUE, IF SinglePass(v.type) THEN <<>> ELSE left)
                  ELSE raise_error(IterMsg(a, <<" must be a ", iterable_type_str, " of ",
                                               a.item_type[1]>>), a,
                                   IF SinglePass(v.type)
                                   THEN SubSeq(left, bad + 1, Len(left)) ELSE left)

\* The mutant of require_iterable that lets a str through its first check.
require_iterable_str_allowed(v, a) == require_iterable_changed(v, a, "str")

\* The mutant of require_iterable whose enforce rejects subclasses.
require_iterable_exact_kind(v, a) == require_iterable_changed(v, a, "exact")

\* The mutant of require_iterable that swaps the two emptiness checks.
require_iterable_size_swapped(v, a) == require_iterable_changed(v, a, "size")

\* The mutant of require_iterable that checks the emptiness before the
\* container kind.
require_iterable_size_first(v, a) ==
  IF v.type # "str" /\ IsIterable(v.type) /\ a.empty = Some(TRUE) /\ v.items # <<>>
  THEN raise_error(IterMsg(a, <<" must be empty">>), a, AfterAny(v))
  ELSE IF v.type # "str" /\ IsIterable(v.type) /\ a.empty = Some(FALSE) /\ v.items = <<>>
  THEN raise_error(IterMsg(a, <<" must not be empty">>), a, AfterAny(v))
  ELSE require_iterable_changed(v, a, "none")

\* require_iterable(val_to_check, var_name, item_type, enforce, exception_to_raise,
\* exit_code, prefix=, suffix=, empty=, raise_from_caller=), with its arguments
\* as the record a; item_type, enforce and empty are optional values.  The
\* checks run in the order of the source, each on what the earlier ones left of
\* a single-pass iterable.
require_iterable(v, a) ==
  IF v.type = "str" \/ ~IsIterable(v.type)
  THEN raise_error(IterMsg(a, <<" must be an iterable (not a string)">>), a, v.items)
  ELSE IF a.enforce # None /\ ~IsInstance(v.type, a.enforce[1])
  THEN raise_error(IterMsg(a, <<" must be of type ", a.enforce[1]>>), a, v.items)
  ELSE LET iterable_type_str == IF a.enforce # None THEN a.enforce[1] ELSE "iterable"
           left == IF a.empty # None THEN AfterAny(v) ELSE v.items
       IN IF a.empty = Some(TRUE) /\ v.items # <<>>
          THEN raise_error(IterMsg(a, <<" must be empty">>), a, left)
          ELSE IF a.empty = Some(FALSE) /\ v.items = <<>>
          THEN raise_error(IterMsg(a, <<" must not be empty">>), a, left)
          ELSE IF a.item_type = None THEN Returned(TRUE, left)
          ELSE LET bad == FirstBad(left, a.item_type[1], 1)
               IN IF bad = 0
                  THEN Returned(TRUE, IF SinglePass(v.type) THEN <<>> ELSE left)
                  ELSE raise_error(IterMsg(a, <<" must be a ", iterable_type_str, " of ",
                                               a.item_type[1]>>), a,
                                   IF SinglePass(v.type)
                                   THEN SubSeq(left, bad + 1, Len(left)) ELSE left)

\* ---------------------------------------------------- helpers: inputs, actions
VarNames == {<<"count">>}

\* exception_to_raise and the optional exit_code argument: both left to their
\* defaults, or a subclass of VTExitingException with a code of its own.
Raisings == {[exit_code |-> None, exception_to_raise |-> "VTExitingException"],
             [exit_code |-> Some(99), exception_to_raise |-> "MyTypedException"]}

\* prefix and suffix: both left out, or both given.
Affixes == {[prefix |-> <<>>, suffix |-> <<>>],
            [prefix |-> <<"ConfigError: ">>, suffix |-> <<" Refer to docs.">>]}

\* enforce: type[list] | type[set] | type[tuple] | type[range].
EnforceTypes == {"list", "set", "tuple", "range"}

\* The values handed to the helpers: scalars, and containers of up to MaxItems
\* elements (a range holds ints only).
Values ==
  {[items |-> <<>>, type |-> t] : t \in ScalarTypes}
    \cup {[items |-> i, type |-> t] :
            t \in ContainerTypes \ {"range"}, i \in SeqsOf(ItemTypes, 0, MaxItems)}
    \cup {[items |-> i, type |-> "range"] : i \in SeqsOf({"int"}, 0, MaxItems)}

\* A call of a helper on the value `val` by a caller that holds no result.  The
\* call and its outcome are recorded; a raised exception and its cause become
\* objects of the heap; the value keeps what the call left of it.
Required(fn, args, res) ==
  /\ lastReq.fn = "none"
  /\ lastReq' = [fn |-> fn, args |-> args, res |-> res, pre |-> val,
                 raised |-> IF res.ok THEN 0 ELSE Len(errs) + 2]
  /\ val' = [val EXCEPT !.items = res.items]
  /\ errs' = IF res.ok THEN errs
             ELSE errs \o <<res.cause,
                            IF res.chained THEN [res.exc EXCEPT !.cause = Len(errs) + 1]
                            ELSE res.exc>>
  /\ ctorArgs' = IF res.ok THEN ctorArgs
                 ELSE ctorArgs \o <<NoKeywords,
                                    [exit_code |-> res.exc.exit_code,
                                     called_process_error |-> 0]>>
  /\ UNCHANGED <<lastErrOp, fmtVars, argVars>>

RequireType(var_name, val_type, raising, affix, raise_from_caller, frames) ==
  Required("require_type",
           [prefix |-> affix.prefix, suffix |-> affix.suffix,
            exit_code |-> raising.exit_code,
            exception_to_raise |-> raising.exception_to_raise,
            raise_from_caller |-> raise_from_caller, frames |-> frames,
            var_name |-> var_name, val_type |-> val_type],
           require_type(val, var_name, val_type, raising.exception_to_raise,
                        raising.exit_code, affix.prefix, affix.suffix,
                        raise_from_caller, frames))

\* The argument record of a call of require_iterable.
IterArgs(var_name, item_type, enforce, raising, affix, empty, raise_from_caller, frames) ==
  [prefix |-> affix.prefix, suffix |-> affix.suffix, exit_code |-> raising.exit_code,
   exception_to_raise |-> raising.exception_to_raise, raise_from_caller |-> raise_from_caller,
   frames |-> frames, var_name |-> var_name, item_type |-> item_type,
   enforce |-> enforce, empty |-> empty]

RequireIterable(a) == Required("require_iterable", a, require_iterable(val, a))

\* The caller takes the result; a raised exception is handled and dropped.
ReturnReq ==
  /\ lastReq.fn # "none"
  /\ lastReq' = [fn |-> "none"]
  /\ errs' = <<>>
  /\ ctorArgs' = <<>>
  /\ UNCHANGED <<val, lastErrOp, fmtVars, argVars>>

InitReq ==
  /\ val \in Values
  /\ lastReq = [fn |-> "none"]
  /\ IdleErr
  /\ IdleFmt
  /\ IdleArg

NextReq ==
  \/ /\ lastReq.fn = "none"
     /\ \E n \in VarNames, t \in ScalarTypes \ {"NoneType"}, x \in Raisings,
           af \in Affixes, r \in BOOLEAN, fr \in BOOLEAN :
          RequireType(n, t, x, af, r, fr)
  \/ /\ lastReq.fn = "none"
     /\ \E n \in VarNames, it \in {None} \cup {Some(t) : t \in ItemTypes},
           en \in {None} \cup {Some(t) : t \in EnforceTypes},
           x \in Raisings, af \in Affixes,
           em \in {None, Some(TRUE), Some(FALSE)}, r \in BOOLEAN, fr \in BOOLEAN :
          RequireIterable(IterArgs(n, it, en, x, af, em, r, fr))
  \/ ReturnReq

\* require_type and require_iterable under calls.
SpecReq == InitReq /\ [][NextReq]_vars

\* ------------------------------------------------ the not-allowed parser action
\* no_allow_mirror_parser(): argparse.ArgumentParser("test-parser") with the help
\* action every parser gets (add_help=True) and the three arguments the fixture
\* adds, in the order of registration.
no_allow_mirror_parser ==
  [prog |-> "test-parser",
   actions |-> <<[action |-> "help", option_strings |-> <<"-h", "--help">>, dest |-> "help"],
                 [action |-> "NoAllow", option_strings |-> <<"-m", "--mirror">>,
                  dest |-> "mirror"],
                 [action |-> "store_true", option_strings |-> <<"--oops">>, dest |-> "oops"],
                 [action |-> "store", option_strings |-> <<"--yo">>, dest |-> "yo"]>>]

\* The namespace a parse starts with: the default of every registered
\* destination (help has none).
Namespace == [mirror |-> None, oops |-> FALSE, yo |-> None]

\* The index of the registered action that has the argument among its option
\* strings, 0 when there is none.
OptionAction(parser, arg) ==
  LET hits == {i \in DOMAIN parser.actions :
                 \E j \in DOMAIN parser.actions[i].option_strings :
                   parser.actions[i].option_strings[j] = arg}
  IN IF hits = {} THEN 0 ELSE CHOOSE i \in hits : TRUE

\* The pattern argparse makes of the command line before it consumes anything:
\* "-" for the first "--", "A" for every argument after it, "O" for an option
\* string and "A" for any other argument.  (The command lines of the model hold
\* no unregistered argument that starts with "-".)
ArgStringsPattern(parser, args) ==
  [i \in DOMAIN args |->
     IF \E j \in 1..(i - 1) : args[j] = "--" THEN "A"
     ELSE IF args[i] = "--" THEN "-"
     ELSE IF OptionAction(parser, args[i]) # 0 THEN "O"
     ELSE "A"]

\* str(argparse.ArgumentError(action, message))
ArgumentError(action, message) ==
  <<"argument ">>
    \o StrJoin(<<"/">>, [i \in DOMAIN action.option_strings |-> <<action.option_strings[i]>>])
    \o <<": ">> \o message

\* The mutant of NoAllow that stores like any other flag and lets the parse go on.
NoAllow_storing(action, values) == Ok(Some(TRUE))

\* NoAllow.__call__(parser, namespace, values, option_string): the action of a
\* flag that must not be given.  It aborts the parse with the argument error
\* "Not allowed" and stores nothing.
NoAllow(action, values) == Raise([code |-> 2, text |-> ArgumentError(action, <<"Not allowed">>)])

\* The number of values an action takes: one for store; none for store_true and
\* help, and none for NoAllow, which is triggered by the flag alone.
NArgs(action) == IF action.action = "store" THEN 1 ELSE 0

\* ArgumentParser._match_argument for an option at whose right the pattern goes
\* on from index start: the number of arguments it takes, or the argument error.
\* An option takes "A" arguments only, never "--".
match_argument(action, pattern, start) ==
  IF NArgs(action) = 0 THEN Ok(0)
  ELSE IF start <= Len(pattern) /\ pattern[start] = "A" THEN Ok(1)
  ELSE Raise([code |-> 2, text |-> ArgumentError(action, <<"expected one argument">>)])

\* take_action: the call of the action on its values.  help prints the help
\* text to standard output and exits with status 0.
take_action(action, values, namespace) ==
  IF action.action = "help" THEN Raise([code |-> 0, text |-> <<>>])
  ELSE IF action.action = "NoAllow"
  THEN LET r == NoAllow(action, values)
       IN IF r.ok THEN Ok([namespace EXCEPT ![action.dest] = r.val]) ELSE r
  ELSE IF action.action = "store_true" THEN Ok([namespace EXCEPT ![action.dest] = TRUE])
  ELSE Ok([namespace EXCEPT ![action.dest] = Some(values[1])])

\* The loop of ArgumentParser._parse_known_args from the argument at index start
\* on: an argument that is no option is put aside (the parser has no
\* positional), an option takes its values and its action is called; the first
\* error ends the loop.
RECURSIVE consume(_, _, _, _)
consume(parser, args, start, namespace) ==
  IF start > Len(args) THEN Ok(namespace)
  ELSE IF ArgStringsPattern(parser, args)[start] # "O"
  THEN consume(parser, args, start + 1, namespace)
  ELSE LET action == parser.actions[OptionAction(parser, args[start])]
           n == match_argument(action, ArgStringsPattern(parser, args), start + 1)
       IN IF ~n.ok THEN n
          ELSE LET r == take_action(action, SubSeq(args, start + 1, start + n.val), namespace)
               IN IF ~r.ok THEN r
                  ELSE consume(parser, args, start + 1 + n.val, r.val)

\* ArgumentParser.error(message): the usage line and "<prog>: error: <message>"
\* on standard error, and the process exits with status 2.
error(parser, message) ==
  [ok |-> FALSE, code |-> 2,
   stderr |-> <<"usage: ", parser.prog, " [-h] [-m] [--oops] [--yo YO]", "\n",
                parser.prog, ": error: ">> \o message \o <<"\n">>]

\* parser.parse_known_args(args): the namespace, or the process exit (SystemExit)
\* with its status and what was written to standard error.
parse_known_args(parser, args) ==
  LET r == consume(parser, args, 1, Namespace)
  IN IF r.ok THEN [ok |-> TRUE, namespace |-> r.val, stderr |-> <<>>]
     ELSE IF r.err.code = 0 THEN [ok |-> FALSE, code |-> 0, stderr |-> <<>>]
     ELSE error(parser, r.err.text)

\* The arguments of the enumerated command lines: a plain value, every option
\* string of the parser, and the "--" that ends the options.
ArgStrings == {"a", "-h", "--help", "-m", "--mirror", "--oops", "--yo", "--"}

\* The command lines test_no_allow is run with.
TestArgs ==
  {<<"--mirror">>,
   <<"a", "b", "8", "-m", "--oops">>,
   <<"a", "b", "8", "-m", "90">>,
   <<"a", "b", "8", "--mirror", "90">>,
   <<"a", "-m", "8", "--mirror", "90">>,
   <<"a", "-m", "8", "--mirror">>,
   <<"a", "--mirror", "8", "--yo", "10">>}

\* One parse of the command line argv, by a process that has not parsed yet.
ParseKnownArgs ==
  /\ ~parsed.done
  /\ parsed' = [done |-> TRUE, res |-> parse_known_args(no_allow_mirror_parser, argv)]
  /\ UNCHANGED <<argv, fmtVars, errVars, reqVars>>

InitArg ==
  /\ argv \in SeqsOf(ArgStrings, 0, MaxArgs) \cup TestArgs
  /\ parsed = [done |-> FALSE]
  /\ IdleFmt
  /\ IdleErr
  /\ IdleReq

NextArg == ParseKnownArgs

\* The parser of the test under one parse of a command line.
SpecArg == InitArg /\ [][NextArg]_vars

\* ------------------------------------------------------ claims: the formatter
\* The conjunction word a recorded call of _join_args wrote.
WordOf(c) ==
  IF c.args.conj_type \in DOMAIN c.cfg.conjunctions
  THEN c.cfg.conjunctions[c.args.conj_type] ELSE c.args.conj_type

\* Item i of a recorded call inside the item wrapper of the call.
Wrapped(c, i) == c.args.surround_item \o c.args.items[i] \o c.args.surround_item

\* The first n wrapped items of a recorded call, each followed by ", " but the last.
RECURSIVE CommaList(_, _)
CommaList(c, n) ==
  IF n = 1 THEN Wrapped(c, 1)
  ELSE CommaList(c, n - 1) \o <<",", " ">> \o Wrapped(c, n)

\* Whether a text holds neither a comma nor a space.
Plain(t) == \A i \in 1..Len(t) : t[i] # "," /\ t[i] # " "

\* C1: with the conjunction key present in the mapping, _join_args returns
\* "{a} {conj} {b}" for exactly 2 labels whatever the Oxford-comma flag is, and for
\* 3 or more labels all labels but the last joined by ", ", then a comma exactly
\* when the flag is set, then " {conj} {last}"; an item wrapper surrounds every
\* label on both sides.
C1_JoinShape ==
  (lastCall.op = "join_args" /\ lastCall.args.conj_type \in DOMAIN lastCall.cfg.conjunctions)
    => LET c == lastCall
           n == Len(c.args.items)
           conj == c.cfg.conjunctions[c.args.conj_type]
       IN /\ n = 2 => c.out = Ok(Wrapped(c, 1) \o <<" ", conj, " ">> \o Wrapped(c, 2))
          /\ n >= 3 =>
               c.out = Ok(CommaList(c, n - 1)
                          \o (IF c.cfg.use_oxford_comma THEN <<",">> ELSE <<>>)
                          \o <<" ", conj, " ">> \o Wrapped(c, n))

\* A call of _join_args with 3 labels, an item wrapper and the Oxford comma on.
C1_Witness ==
  /\ lastCall.op = "join_args"
  /\ lastCall.args.conj_type \in DOMAIN lastCall.cfg.conjunctions
  /\ Len(lastCall.args.items) = 3
  /\ lastCall.args.surround_item # <<>>
  /\ lastCall.cfg.use_oxford_comma
  /\ lastCall.out.ok

\* The calls C2 is about: 2 or more labels, and no comma and no space in the
\* labels, the item wrapper and the conjunction word.
C2_Case(c) ==
  /\ c.op = "join_args"
  /\ Len(c.args.items) >= 2
  /\ \A i \in 1..Len(c.args.items) : Plain(c.args.items[i])
  /\ Plain(c.args.surround_item)
  /\ WordOf(c) # "," /\ WordOf(c) # " "

\* C2 as stated: the output ends with " {conjunction} " and the final label, that
\* separator occurs exactly once, and the output holds exactly len - 2 commas under
\* either Oxford-comma setting.
C2_Original ==
  C2_Case(lastCall)
    => LET c == lastCall
           n == Len(c.args.items)
           sep == <<" ", WordOf(c), " ">>
       IN /\ c.out.ok
          /\ EndsWith(c.out.val, sep \o Wrapped(c, n))
          /\ StrCount(c.out.val, sep) = 1
          /\ Count(c.out.val, ",") = n - 2

\* C2 (amended): the output ends with " {conjunction} " and the final label, that
\* separator occurs exactly once, and the output holds exactly len - 2 commas when
\* the Oxford-comma flag is off or there are 2 labels, and len - 1 commas when
\* the flag is on and there are 3 or more labels.
C2_Amended ==
  C2_Case(lastCall)
    => LET c == lastCall
           n == Len(c.args.items)
           sep == <<" ", WordOf(c), " ">>
       IN /\ c.out.ok
          /\ EndsWith(c.out.val, sep \o Wrapped(c, n))
          /\ StrCount(c.out.val, sep) = 1
          /\ Count(c.out.val, ",") =
               IF c.cfg.use_oxford_comma /\ n >= 3 THEN n - 1 ELSE n - 2

\* A call with 3 plain labels and the Oxford comma on, whose middle label is the
\* conjunction word itself.
C2_Witness ==
  /\ C2_Case(lastCall)
  /\ Len(lastCall.args.items) = 3
  /\ lastCall.cfg.use_oxford_comma
  /\ lastCall.args.items[2] = <<WordOf(lastCall)>>
  /\ Count(lastCall.out.val, ",") = 2

\* The recorded call reached _join_args with at least one item: every call but
\* errmsg_for_choices without choices and _join_args of an empty list.
JoinCalled(c) ==
  /\ c.op \in {"join_args", "not_allowed_together", "at_least_one_required",
               "all_required", "errmsg_for_choices"}
  /\ Len(c.args.items) >= 1

\* C3: a call that reaches _join_args with a conjunction key that is absent from
\* the mapping fails with a configuration error (KeyError) and returns no text.
C3_MissingKeyFails ==
  (JoinCalled(lastCall) /\ lastCall.args.conj_type \notin DOMAIN lastCall.cfg.conjunctions)
    => (~lastCall.out.ok /\ lastCall.out.err = "KeyError")

\* The texts the first instance returns for every call of the public methods.
TextsOfFirst ==
  [ls \in LabelLists |->
     <<not_allowed_together(Cfg(1), ls, <<>>, <<" are not allowed together.">>),
       at_least_one_required(Cfg(1), ls, <<>>, <<" is required.">>),
       all_required(Cfg(1), ls, <<>>, <<" are required.">>)>>]

\* C4: clone_with returns an instance other than the one it is called on, and no
\* step (a clone_with call, a formatting call on any instance, a change to a
\* clone's configuration) changes the first instance's locale, Oxford-comma flag
\* or conjunction mapping, or the text any formatting call on it returns.
C4_CloneIsolation ==
  [][/\ lastCall'.op = "clone_with" => lastCall'.out.val # lastCall'.self
     /\ formers'[1] = formers[1]
     /\ dicts'[formers[1].conjunctions] = dicts[formers[1].conjunctions]
     /\ TextsOfFirst' = TextsOfFirst]_vars

\* ------------------------------------------------------ claims: the exceptions
\* The exception a recorded call was made on, and its chained cause (0 for none).
SelfOf(c) == errs[c.self]

HasDirectMessage(c) == SelfOf(c).args # <<>>

\* The direct message: the standard rendering of the message fragments.
DirectMessage(c) == BaseStr(SelfOf(c).args)

\* The type name of an exception, whether it was constructed with a message, and
\* its message: its own text rendering.
TypeName(e) == errs[e].cls

HasMessage(e) == errs[e].args # <<>>

MessageOf(e) == str(e).val

C6_CauseAccessor ==
  (lastErrOp.op = "cause" /\ SelfOf(lastErrOp).cls = "VTCmdException")
    => LET c == lastErrOp
           k == SelfOf(c).cause
       IN IF k # 0
          THEN IF TypeName(k) = "CalledProcessError"
               THEN c.out = Ok(k) ELSE c.out = Raise("TypeError")
          ELSE c.out = Ok(ctorArgs[c.self].called_process_error)

\* The accessor was called on a VTCmdException chained to a ValueError.
C6_Witness ==
  /\ lastErrOp.op = "cause"
  /\ SelfOf(lastErrOp).cls = "VTCmdException"
  /\ SelfOf(lastErrOp).cause # 0
  /\ TypeName(SelfOf(lastErrOp).cause) = "ValueError"
  /\ ~lastErrOp.out.ok

\* C7: a VTCmdException constructed without exit_code reports the return code
\* of the CalledProcessError it wraps, and constructed with an exit code (0 and
\* codes other than the return code included) reports exactly that code.
C7_CmdExitCode ==
  (lastErrOp.op = "exit_code" /\ SelfOf(lastErrOp).cls = "VTCmdException")
    => LET given == ctorArgs[lastErrOp.self]
       IN lastErrOp.out =
            Ok(IF given.exit_code = None
               THEN errs[given.called_process_error].returncode
               ELSE given.exit_code[1])

\* The exit code of a VTCmdException constructed with exit_code=0 around a
\* failure with return code 3 was read.
C7_Witness ==
  /\ lastErrOp.op = "exit_code"
  /\ SelfOf(lastErrOp).cls = "VTCmdException"
  /\ ctorArgs[lastErrOp.self].exit_code = Some(0)
  /\ errs[ctorArgs[lastErrOp.self].called_process_error].returncode = 3
  /\ lastErrOp.out = Ok(0)

\* The exit code a VTExitingException was constructed with: the one given, or
\* the generic-error code.
ConstructedExitCode(e) ==
  IF ctorArgs[e].exit_code = None THEN ERR_GENERIC_ERR ELSE ctorArgs[e].exit_code[1]

\* C8: in every state, the exit code of every VTExitingException is the value
\* given at construction, or the generic-error code (1) when none was given:
\* also after a cause was chained to it and after it was rendered or exported;
\* and that is the value a read of exit_code reports.
C8_ExitCodeFixed ==
  /\ \A e \in ErrIds :
       errs[e].cls = "VTExitingException" => exit_code(e) = ConstructedExitCode(e)
  /\ (lastErrOp.op = "exit_code" /\ SelfOf(lastErrOp).cls = "VTExitingException")
       => lastErrOp.out = Ok(ConstructedExitCode(lastErrOp.self))

\* A VTExitingException constructed without an exit code was chained to a cause
\* and then exported.
C8_Witness ==
  /\ lastErrOp.op = "to_dict"
  /\ SelfOf(lastErrOp).cls = "VTExitingException"
  /\ ctorArgs[lastErrOp.self].exit_code = None
  /\ SelfOf(lastErrOp).cause # 0
  /\ exit_code(lastErrOp.self) = 1

\* --------------------------------------------------- claims: the require helpers
\* The call of require_type the caller holds the outcome of.
TypeCalled == lastReq.fn = "require_type"

\* The message require_type is to complain with.
TypeMessage(a) ==
  a.prefix \o <<"'">> \o a.var_name \o <<"'", " must be of type ">>
    \o <<a.val_type>> \o a.suffix

\* C9: require_type returns None, raising nothing, for every value that is an
\* instance of val_type; for every other value it raises an instance of
\* exception_to_raise whose only argument is prefix + "'" + var_name +
\* "' must be of type " + the name of val_type + suffix, whose exit code is the
\* exit_code given (65 when none is given), and whose cause is a TypeError with
\* that same message.
C9_RequireType ==
  TypeCalled =>
    LET a == lastReq.args
        e == lastReq.raised
    IN IF IsInstance(lastReq.pre.type, a.val_type)
       THEN lastReq.res.ok /\ lastReq.res.val = None /\ e = 0 /\ errs = <<>>
       ELSE /\ ~lastReq.res.ok
            /\ e \in DOMAIN errs
            /\ errs[e].cls = a.exception_to_raise
            /\ errs[e].args = <<TypeMessage(a)>>
            /\ exit_code(e) = (IF a.exit_code = None THEN 65 ELSE a.exit_code[1])
            /\ errs[e].cause \in DOMAIN errs
            /\ errs[errs[e].cause].cls = "TypeError"
            /\ errs[errs[e].cause].args = <<TypeMessage(a)>>

\* C9 happens: require_type("abc"-like str, "count", int), with a prefix, a suffix,
\* a subclass and the exit code 99, has raised, and the exception renders as
\* its doctest shows.
C9_Witness ==
  /\ TypeCalled
  /\ lastReq.pre.type = "str"
  /\ lastReq.args.val_type = "int"
  /\ lastReq.args.exit_code = Some(99)
  /\ lastReq.raised \in DOMAIN errs
  /\ exit_code(lastReq.raised) = 99
  /\ str(lastReq.raised)
       = Ok(<<"TypeError", ": ", "ConfigError: ", "'", "count", "'",
              " must be of type ", "int", " Refer to docs.">>)

\* The outcome of the recorded call had raise_from_caller been the other way.
Flipped ==
  LET a == [lastReq.args EXCEPT !.raise_from_caller = ~@]
  IN IF TypeCalled
     THEN require_type(lastReq.pre, a.var_name, a.val_type, a.exception_to_raise,
                       a.exit_code, a.prefix, a.suffix, a.raise_from_caller, a.frames)
     ELSE require_iterable(lastReq.pre, a)

\* C10: for every call of require_type and of require_iterable, the outcome
\* with raise_from_caller true and with raise_from_caller false is the same in
\* everything but the origin: both return the same value or both raise, and
\* then exceptions of the same class, message and exit code, each chained to
\* a TypeError that carries the same message.
C10_OriginOnly ==
  lastReq.fn # "none" =>
    LET res == lastReq.res
        other == Flipped
    IN /\ other.ok = res.ok
       /\ other.items = res.items
       /\ res.ok => other.val = res.val
       /\ ~res.ok =>
            /\ other.exc = res.exc
            /\ other.cause = res.cause
            /\ other.chained /\ res.chained
            /\ res.cause.cls = "TypeError"
            /\ res.cause.args = res.exc.args
            /\ errs[lastReq.raised].cause = lastReq.raised - 1
            /\ errs[lastReq.raised - 1] = res.cause

\* C10 happens: both helpers' raises, attributed to the caller and not, are
\* in view: here require_iterable has raised from its caller with the cause
\* chained, while the call with the flag off raises at the raise statement.
C10_Witness ==
  /\ lastReq.fn = "require_iterable"
  /\ ~lastReq.res.ok
  /\ lastReq.args.raise_from_caller
  /\ lastReq.res.origin = "require_iterable"
  /\ Flipped.origin = "raise_error"
  /\ lastReq.pre.type = "generator"
  /\ errs[lastReq.raised].cause # 0

\* The call of require_iterable the caller holds the outcome of.
IterCalled == lastReq.fn = "require_iterable"

\* A message of require_iterable as the claims spell it: the complaint after the
\* quoted label, between prefix and suffix.
Between(a, complaint) ==
  a.prefix \o <<"'">> \o a.var_name \o <<"'">> \o complaint \o a.suffix

\* The recorded call raised with the given complaint.
RaisedWith(complaint) ==
  /\ ~lastReq.res.ok
  /\ lastReq.res.exc.args = <<Between(lastReq.args, complaint)>>

\* Every element a value holds is an instance of T.
AllInstances(items, T) == \A i \in 1..Len(items) : IsInstance(items[i], T)

\* The value of the recorded call is an iterable that is no str.
IterableGiven == lastReq.pre.type # "str" /\ IsIterable(lastReq.pre.type)

\* The value of the recorded call is of the class enforce names, if it names one.
KindAccepted ==
  lastReq.args.enforce = None \/ IsInstance(lastReq.pre.type, lastReq.args.enforce[1])

\* The value of the recorded call has the number of elements empty asks for.
SizeAccepted ==
  /\ lastReq.args.empty = Some(TRUE) => lastReq.pre.items = <<>>
  /\ lastReq.args.empty = Some(FALSE) => lastReq.pre.items # <<>>

\* The container descriptor of the item-type message.
Descriptor(a) == IF a.enforce = None THEN "iterable" ELSE a.enforce[1]

\* C11: for every iterable given to require_iterable, single-pass ones included,
\* and every enforce and empty: with item_type given, a call that returns True
\* was given only instances of item_type; and a call that gets as far as the
\* item check with some element that is no instance raises "'{var_name}' must
\* be a {descriptor} of {item_type}" between prefix and suffix, having read a
\* single-pass value up to its first such element.
C11_ItemTypes ==
  (IterCalled /\ lastReq.args.item_type # None) =>
    LET a == lastReq.args
        T == a.item_type[1]
        v == lastReq.pre
        bad == FirstBad(v.items, T, 1)
    IN /\ lastReq.res.ok => AllInstances(v.items, T)
       /\ (IterableGiven /\ KindAccepted /\ SizeAccepted /\ bad # 0) =>
            /\ RaisedWith(<<" must be a ", Descriptor(a), " of ", T>>)
            /\ SinglePass(v.type) =>
                 lastReq.res.items = SubSeq(v.items, bad + 1, Len(v.items))

\* C12: require_iterable raises "'{var_name}' must be an iterable (not a
\* string)", between prefix and suffix, for every str and for every value that
\* is no iterable (an int, a bool, None), whatever item_type, enforce and empty
\* are; it never returns for a str.
C12_StringsRejected ==
  (IterCalled /\ lastReq.pre.type \in ScalarTypes) =>
    /\ RaisedWith(<<" must be an iterable (not a string)">>)
    /\ lastReq.raised \in DOMAIN errs
    /\ str(lastReq.raised).val
         = <<"TypeError", ": ">>
             \o Between(lastReq.args, <<" must be an iterable (not a string)">>)

\* C12 happens: a str was given with str items asked for, a container class
\* enforced and empty=False, and the call has raised.
C12_Witness ==
  /\ IterCalled
  /\ lastReq.pre.type = "str"
  /\ lastReq.args.item_type = Some("str")
  /\ lastReq.args.enforce = Some("list")
  /\ lastReq.args.empty = Some(FALSE)
  /\ ~lastReq.res.ok

\* The complaint of the container-kind check.
KindComplaint == <<" must be of type ", lastReq.args.enforce[1]>>

\* C13 as stated: with enforce given, require_iterable raises "'{var_name}' must
\* be of type {enforce}" for every iterable that is no str and whose class is
\* not exactly enforce, and does not raise so for a value of exactly that class.
C13_Original ==
  (IterCalled /\ lastReq.args.enforce # None /\ IterableGiven) =>
    (RaisedWith(KindComplaint) <=> lastReq.pre.type # lastReq.args.enforce[1])

\* A value of class t is of the kind T: of T or of a subclass of T.
OfKind(t, T) == t = T \/ (t = "Point" /\ T = "tuple")

\* C13, amended: with enforce given, require_iterable raises "'{var_name}' must
\* be of type {enforce}" for every iterable that is no str and is no instance of
\* enforce (of that class or of a subclass of it), and does not raise so for an
\* instance of it, instances of subclasses included.
C13_Amended ==
  (IterCalled /\ lastReq.args.enforce # None /\ IterableGiven) =>
    (RaisedWith(KindComplaint) <=> ~OfKind(lastReq.pre.type, lastReq.args.enforce[1]))

\* C13 happens: a namedtuple passed enforce=tuple and the call returned, and the
\* value's class is not the enforced one.
C13_Witness ==
  /\ IterCalled
  /\ lastReq.args.enforce = Some("tuple")
  /\ lastReq.pre.type = "Point"
  /\ lastReq.pre.items # <<>>
  /\ lastReq.res.ok

\* C14: for a value that got past the iterable and the container-kind checks,
\* require_iterable with empty=True raises "'{var_name}' must be empty" exactly
\* when the value has an element, with empty=False raises "'{var_name}' must
\* not be empty" exactly when it has none, and with empty unset raises
\* neither; no other call raises either message.
C14_Emptiness ==
  IterCalled =>
    LET a == lastReq.args
        reached == IterableGiven /\ KindAccepted
        some == lastReq.pre.items # <<>>
    IN /\ RaisedWith(<<" must be empty">>)
            <=> (reached /\ a.empty = Some(TRUE) /\ some)
       /\ RaisedWith(<<" must not be empty">>)
            <=> (reached /\ a.empty = Some(FALSE) /\ ~some)
       /\ a.empty = None =>
            ~RaisedWith(<<" must be empty">>) /\ ~RaisedWith(<<" must not be empty">>)

\* C14 happens: a generator that still had an element was asked to be empty and
\* the call raised, the emptiness check having taken that element.
C14_Witness ==
  /\ IterCalled
  /\ lastReq.args.empty = Some(TRUE)
  /\ lastReq.pre.type = "generator"
  /\ Len(lastReq.pre.items) = 1
  /\ RaisedWith(<<" must be empty">>)
  /\ val.items = <<>>

\* C15: every call of require_iterable either returns True, and then none of
\* its four requirements (an iterable that is no str, the enforced class, the
\* asked emptiness, items of item_type) is unmet by the value it was given, or
\* raises an instance of exception_to_raise with the given exit_code (65 when
\* none is given) and a TypeError cause with the same message.
C15_TrueOrRaise ==
  IterCalled =>
    LET a == lastReq.args
        e == lastReq.raised
    IN IF lastReq.res.ok
       THEN /\ lastReq.res.val = TRUE
            /\ e = 0
            /\ IterableGiven /\ KindAccepted /\ SizeAccepted
            /\ a.item_type # None => AllInstances(lastReq.pre.items, a.item_type[1])
       ELSE /\ e \in DOMAIN errs
            /\ errs[e].cls = a.exception_to_raise
            /\ Len(errs[e].args) = 1
            /\ exit_code(e) = (IF a.exit_code = None THEN 65 ELSE a.exit_code[1])
            /\ errs[e].cause \in DOMAIN errs
            /\ errs[errs[e].cause].cls = "TypeError"
            /\ errs[errs[e].cause].args = errs[e].args

\* The first check, in the order iterable that is no str (1), container kind
\* (2), emptiness (3), item type (4), that the value of the recorded call does
\* not meet; 0 when it meets all four.
FirstViolated ==
  IF ~IterableGiven THEN 1
  ELSE IF ~KindAccepted THEN 2
  ELSE IF ~SizeAccepted THEN 3
  ELSE IF lastReq.args.item_type # None
          /\ ~AllInstances(lastReq.pre.items, lastReq.args.item_type[1]) THEN 4
  ELSE 0

\* The number of the four checks the value of the recorded call does not meet.
ViolatedCount ==
  (IF ~IterableGiven THEN 1 ELSE 0)
    + (IF ~KindAccepted THEN 1 ELSE 0)
    + (IF ~SizeAccepted THEN 1 ELSE 0)
    + (IF lastReq.args.item_type # None
          /\ ~AllInstances(lastReq.pre.items, lastReq.args.item_type[1]) THEN 1 ELSE 0)

\* C22: require_iterable runs its checks in the order iterable that is no str,
\* container kind, emptiness, item type, and stops at the first that fails: a
\* call that violates one of the first three raises the message of the earliest
\* one violated, whatever later checks the value violates too, and no later
\* check has run (the value keeps every element when the first or the second
\* check fails, and loses to the emptiness check at most the one element that
\* check reads); the item-type message is raised only when no earlier check is
\* violated.
C22_CheckOrder ==
  IterCalled =>
    LET a == lastReq.args
        v == lastReq.pre
    IN /\ FirstViolated = 1 =>
            /\ RaisedWith(<<" must be an iterable (not a string)">>)
            /\ lastReq.res.items = v.items
       /\ FirstViolated = 2 =>
            /\ RaisedWith(<<" must be of type ", a.enforce[1]>>)
            /\ lastReq.res.items = v.items
       /\ FirstViolated = 3 =>
            /\ RaisedWith(IF a.empty = Some(TRUE) THEN <<" must be empty">>
                          ELSE <<" must not be empty">>)
            /\ lastReq.res.items = AfterAny(v)
       /\ (a.item_type # None
             /\ RaisedWith(<<" must be a ", Descriptor(a), " of ", a.item_type[1]>>))
            => FirstViolated = 4

\* C22 happens: a generator of two elements violated the container kind, the
\* emptiness and the item type at once; the call raised the container-kind
\* message and read no element.
C22_Witness ==
  /\ IterCalled
  /\ lastReq.pre.type = "generator"
  /\ lastReq.pre.items = <<"str", "str">>
  /\ lastReq.args.enforce = Some("list")
  /\ lastReq.args.empty = Some(TRUE)
  /\ lastReq.args.item_type = Some("int")
  /\ ViolatedCount = 3
  /\ RaisedWith(<<" must be of type ", "list">>)
  /\ val.items = <<"str", "str">>

\* --------------------------------------------------- claims: the exported record
\* The cause of an exception as its cause accessor gives it: the chained
\* exception, or for a VTCmdException without one the CalledProcessError it wraps.
CauseOf(e) ==
  IF errs[e].cls = "VTCmdException" /\ errs[e].cause = 0
  THEN ctorArgs[e].called_process_error
  ELSE errs[e].cause

\* C16: the dict to_dict returns has exactly the keys type, message, cause_type
\* and cause_message: type is the class name of the exception, message its text
\* rendering, and cause_type and cause_message are both None when it has no
\* cause and are otherwise the class name and the text of the cause.
C16_Record ==
  (lastErrOp.op = "to_dict" /\ lastErrOp.out.ok) =>
    LET e == lastErrOp.self
        r == lastErrOp.out.val
        k == CauseOf(e)
    IN /\ DOMAIN r = {"type", "message", "cause_type", "cause_message"}
       /\ r.type = TypeName(e)
       /\ Ok(r.message) = str(e)
       /\ k = 0 => r.cause_type = None /\ r.cause_message = None
       /\ k # 0 => r.cause_type = Some(TypeName(k)) /\ Some(MessageOf(k)) = r.cause_message

\* C16 happens: an exception with a message and a cause that has one was
\* exported, and the record names the cause and holds both texts.
C16_Witness ==
  /\ lastErrOp.op = "to_dict"
  /\ lastErrOp.out
       = Ok([message |-> <<"ValueError", ": ", "main message.">>,
             type |-> "VTExitingException",
             cause_type |-> Some("ValueError"),
             cause_message |-> Some(<<"main message.">>)])

\* ------------------------------------------------ claims: the public messages
\* joinWithConjunction of the recorded call's labels under its configuration.
Joined(c, conj_type, wrapper) == join_args(c.cfg, c.args.items, conj_type, wrapper)

\* C17: all_required returns prefix, then "Both" for exactly 2 labels and "All"
\* for 3 or more, then a space, then _join_args(labels, "and"), then suffix.
C17_AllRequired ==
  lastCall.op = "all_required" =>
    LET c == lastCall
        keyword == IF Len(c.args.items) = 2 THEN "Both"
                   ELSE IF Len(c.args.items) >= 3 THEN "All" ELSE "neither"
        joined == Joined(c, "and", <<>>)
    IN /\ joined.ok
       /\ c.out = Ok(c.args.prefix \o <<keyword>> \o <<" ">> \o joined.val \o c.args.suffix)

\* C17 happens: all_required was called with 3 labels, a prefix and the default
\* suffix, and the text starts with the prefix and "All".
C17_Witness ==
  /\ lastCall.op = "all_required"
  /\ Len(lastCall.args.items) = 3
  /\ lastCall.args.suffix = <<" are required.">>
  /\ lastCall.out.ok
  /\ SubSeq(lastCall.out.val, 1, 3) = <<"Invalid: ", "All", " ">>

\* C18: not_allowed_together returns, for every list of 2 or more labels,
\* exactly prefix + _join_args(labels, "and") + suffix.
C18_NotAllowedTogether ==
  lastCall.op = "not_allowed_together" =>
    LET c == lastCall
        joined == Joined(c, "and", <<>>)
    IN /\ Len(c.args.items) >= 2
       /\ joined.ok
       /\ c.out = Ok(c.args.prefix \o joined.val \o c.args.suffix)

\* C18 happens: the default instance was asked about "a" and "and" with the
\* default prefix and suffix.
C18_Witness ==
  /\ lastCall.op = "not_allowed_together"
  /\ lastCall.out = Ok(<<"a", " ", "and", " ", "and", " are not allowed together.">>)

\* The first sentence of errmsg_for_choices with the emphasis in front of the
\* value when `emphasised` says so.
FirstSentence(c, emphasised) ==
  c.args.prefix \o (IF emphasised THEN c.args.emphasis[1] \o <<" ">> ELSE <<>>)
    \o c.args.value \o <<".">>

\* The text claimed for a call of errmsg_for_choices, with the emphasis and the
\* choices sentence put in when `emphasised` and `listed` say so.
ChoicesText(c, emphasised, listed) ==
  IF listed
  THEN Wrap(FirstSentence(c, emphasised) \o <<" Choose from ">>,
            Joined(c, "and", <<"'">>), <<".">> \o c.args.suffix)
  ELSE Ok(FirstSentence(c, emphasised) \o c.args.suffix)

DeclaredAliases ==
  {<<"ENC_FILE_ALREADY_EXISTS", "ENC_ERR_STATE_ALREADY_EXISTS">>,
   <<"ENC_DIR_ALREADY_EXISTS", "ENC_ERR_STATE_ALREADY_EXISTS">>,
   <<"ENC_UNSTABLE_STATE_ERR", "ENC_UNAVAILABLE_SERVICE_ERR">>,
   <<"ENC_UNINITIALISED_ERR", "ENC_UNAVAILABLE_SERVICE_ERR">>,
   <<"ENC_ERR_FILE_NOT_FOUND", "ENC_ERR_CMD_NOT_FOUND">>,
   <<"ENC_ERR_DIR_NOT_FOUND", "ENC_ERR_CMD_NOT_FOUND">>}

\* C20: in every state the exit-code registry maps generic error to 1, invalid
\* usage to 2, state / file / dir already exists to 4, data-format error to 65,
\* service unavailable / uninitialised / unstable state to 69, cannot execute /
\* permission denied to 126, command / file / dir not found to 127,
\* underlying-command error to 128 and interrupt received to 130; every name
\* declared as an alias holds the integer of the name it refers to; and the
\* defaults the exceptions and the helpers use are the registry's.
C20_Registry ==
  LET c == error_codes
  IN /\ c["ENC_ERR_GENERIC_ERR"] = 1
     /\ c["ENC_ERR_INVALID_USAGE"] = 2
     /\ c["ENC_ERR_STATE_ALREADY_EXISTS"] = 4
     /\ c["ENC_FILE_ALREADY_EXISTS"] = 4
     /\ c["ENC_DIR_ALREADY_EXISTS"] = 4
     /\ c["ENC_ERR_DATA_FORMAT_ERR"] = 65
     /\ c["ENC_UNAVAILABLE_SERVICE_ERR"] = 69
     /\ c["ENC_UNINITIALISED_ERR"] = 69
     /\ c["ENC_UNSTABLE_STATE_ERR"] = 69
     /\ c["ENC_CANNOT_EXECUTE_CMD"] = 126
     /\ c["ENC_CMD_EXECUTION_PERMISSION_DENIED"] = 126
     /\ c["ENC_ERR_CMD_NOT_FOUND"] = 127
     /\ c["ENC_ERR_FILE_NOT_FOUND"] = 127
     /\ c["ENC_ERR_DIR_NOT_FOUND"] = 127
     /\ c["ENC_ERR_UNDERLYING_CMD_ERR"] = 128
     /\ c["ENC_ERR_SIGINT_RECEIVED"] = 130
     /\ \A al \in DeclaredAliases : c[al[1]] = c[al[2]]
     /\ ERR_GENERIC_ERR = c["ENC_ERR_GENERIC_ERR"]
     /\ ERR_DATA_FORMAT_ERR = c["ENC_ERR_DATA_FORMAT_ERR"]
     /\ \A e \in ErrIds :
          (errs[e].cls = "VTExitingException" /\ ctorArgs[e].exit_code = None)
            => exit_code(e) = c["ENC_ERR_GENERIC_ERR"]

\* C20 happens: the registry is loaded with the alias of "directory not found"
\* resolved, and a VTExitingException constructed without an exit code reports
\* the registry's generic error.
C20_Witness ==
  /\ error_codes["ENC_ERR_DIR_NOT_FOUND"] = error_codes["ENC_ERR_CMD_NOT_FOUND"]
  /\ \E e \in ErrIds :
       /\ errs[e].cls = "VTExitingException"
       /\ ctorArgs[e].exit_code = None
       /\ errs[e].cause # 0
       /\ exit_code(e) = error_codes["ENC_ERR_GENERIC_ERR"]

\* ------------------------------------------- claims: rendering a VTCmdException
\* The text the recorded call rendered: the result of str, or the message entry
\* of the record of to_dict.
RenderedText(c) == IF c.op = "str" THEN c.out.val ELSE c.out.val.message

\* C23: str and to_dict of a VTCmdException go through its cause accessor.  With
\* no exception chained they return, with the wrapped CalledProcessError as the
\* cause: "CalledProcessError: <direct message>", or with no direct message
\* "CalledProcessError: <text of the wrapped CalledProcessError>"; the record
\* names the wrapped CalledProcessError as cause_type and its text as
\* cause_message.  With a chained exception that is no CalledProcessError both
\* fail with TypeError and return nothing.
C23_CmdRendering ==
  (lastErrOp.op \in {"str", "to_dict"} /\ SelfOf(lastErrOp).cls = "VTCmdException")
    => LET c == lastErrOp
           k == SelfOf(c).cause
           w == ctorArgs[c.self].called_process_error
       IN IF k = 0
          THEN /\ c.out.ok
               /\ RenderedText(c)
                    = <<"CalledProcessError", ": ">>
                        \o (IF HasDirectMessage(c) THEN DirectMessage(c)
                            ELSE CalledProcessError_str(w))
               /\ c.op = "to_dict" =>
                    /\ c.out.val.type = "VTCmdException"
                    /\ c.out.val.cause_type = Some("CalledProcessError")
                    /\ c.out.val.cause_message = Some(CalledProcessError_str(w))
          ELSE TypeName(k) # "CalledProcessError" => c.out = Raise("TypeError")

\* ------------------------------------------ claims: the not-allowed parser action
\* The text t holds the text sub.
Contains(t, sub) ==
  \E i \in 1..(Len(t) - Len(sub) + 1) : SubSeq(t, i, i + Len(sub) - 1) = sub

\* The diagnostic of the flag registered with the not-allowed action.
NotAllowedText == <<"argument ", "-m", "/", "--mirror", ": ", "Not allowed">>

\* The argument at index i of the command line is the not-allowed flag, in its
\* short or its long form.
FlagAt(i) == i \in DOMAIN argv /\ argv[i] \in {"-m", "--mirror"}

\* No "--" stands before index i of the command line.
BeforeSeparator(i) == \A j \in 1..(i - 1) : argv[j] # "--"

\* An argument that is neither an option string of the parser nor "--".
PlainValue(arg) ==
  arg \notin {"-h", "--help", "-m", "--mirror", "--oops", "--yo", "--"}

\* An argument before index i has ended the parse already: a help flag, or a
\* --yo that is not followed by a plain value.
EndedBefore(i) ==
  \E j \in 1..(i - 1) :
    \/ argv[j] \in {"-h", "--help"}
    \/ argv[j] = "--yo" /\ ~PlainValue(argv[j + 1])

====
